---- MODULE Spec2Model ----
(***************************************************************************)
(* Motion detector (src/src/main.rs): a capture loop that reduces every    *)
(* frame to a thumbnail, counts the pixels that changed against the        *)
(* baseline thumbnail and prints "start" / "stop" with a tail period.      *)
(*                                                                         *)
(* The settings of main (lines 14-23) are drawn from small sets in Init so *)
(* that the statements about "every threshold" or "any downsample factor"  *)
(* range over more than the one built-in configuration.  Time is a clock   *)
(* in ticks; Instants are readings of that clock.                          *)
(***************************************************************************)
EXTENDS Integers, Sequences, FiniteSets, TLC

VARIABLES
    pc,                    \* position of main: "config", "warmup", "init_previous",
                           \* "init_current", "loop", "panicked" (and "harness")
    cfg,                   \* the settings of main, lines 14-23
    pixel_threshold,       \* line 74
    pixel_count_threshold, \* line 84
    thumb_width,           \* line 80
    thumb_height,          \* line 81
    thumbs,                \* line 87: the two thumbnail buffers, indices 0 and 1
    previous_thumb,        \* line 85
    current_thumb,         \* line 86
    now,                   \* the monotonic clock read by Instant::now()
    last_frame_time,       \* line 136
    latest_movement_time,  \* line 137: None or Some(instant)
    frame,                 \* the frame of the latest update_thumbnail call
    changed_pixels,        \* line 172, value after the latest comparison
    wait_time,             \* line 165: the time slept in the latest cycle (0: no sleep)
    printed,               \* the line the latest step printed ("" when none)
    fed                    \* harness only: the <<count, interval>> samples fed so far

vars == <<pc, cfg, pixel_threshold, pixel_count_threshold, thumb_width, thumb_height,
          thumbs, previous_thumb, current_thumb, now, last_frame_time,
          latest_movement_time, frame, changed_pixels, wait_time, printed, fed>>

(***************************************************************************)
(* Option<Instant>                                                         *)
(***************************************************************************)
None == <<>>
Some(t) == <<t>>
IsNone(o) == o = <<>>
Unwrap(o) == o[1]

(***************************************************************************)
(* Binary floating point, as far as lines 74, 77 and 84 use it.  A value   *)
(* >= 0 is [m |-> bits, most significant first, e |-> the exponent of the  *)
(* last bit]; m = <<>> is zero.  Bits are kept in sequences because the    *)
(* 53-bit significand of an f64 does not fit the checker's integers.       *)
(***************************************************************************)
F64Precision == 53
F32Precision == 24

RECURSIVE NatToBits(_)
NatToBits(n) == IF n = 0 THEN <<>> ELSE Append(NatToBits(n \div 2), n % 2)

RECURSIVE BitsToNat(_)
BitsToNat(b) ==
    IF b = <<>> THEN 0
    ELSE 2 * BitsToNat(SubSeq(b, 1, Len(b) - 1)) + b[Len(b)]

RECURSIVE Pow2(_)
Pow2(k) == IF k = 0 THEN 1 ELSE 2 * Pow2(k - 1)

\* b + 1
RECURSIVE IncBits(_)
IncBits(b) ==
    IF b = <<>> THEN <<1>>
    ELSE IF b[Len(b)] = 0 THEN Append(SubSeq(b, 1, Len(b) - 1), 1)
    ELSE Append(IncBits(SubSeq(b, 1, Len(b) - 1)), 0)

\* b * n, for a small n: schoolbook multiplication from the last bit (index i)
\* towards the first, acc holding the bits already produced
RECURSIVE MulBitsFrom(_, _, _, _, _)
MulBitsFrom(b, i, n, carry, acc) ==
    IF i = 0 THEN NatToBits(carry) \o acc
    ELSE MulBitsFrom(b, i - 1, n, (b[i] * n + carry) \div 2,
                     <<(b[i] * n + carry) % 2>> \o acc)

MulBits(b, n, carry) == MulBitsFrom(b, Len(b), n, carry, <<>>)

AllZero(b) == \A i \in 1..Len(b) : b[i] = 0

\* round to nearest, ties to even, at prec significant bits (IEEE 754 default)
RoundBits(m, e, prec) ==
    IF Len(m) <= prec THEN [m |-> m, e |-> e]
    ELSE LET s       == Len(m) - prec
             kept    == SubSeq(m, 1, prec)
             dropped == SubSeq(m, prec + 1, Len(m))
             rest    == SubSeq(dropped, 2, Len(dropped))
             up      == /\ dropped[1] = 1
                        /\ (~AllZero(rest) \/ kept[prec] = 1)
         IN  [m |-> IF up THEN IncBits(kept) ELSE kept, e |-> e + s]

\* the correctly rounded quotient num / den of two naturals, den > 0:
\* long division, one bit a step, then the rounding decided by the remainder
RECURSIVE DivGen(_, _, _, _, _)
DivGen(m, r, e, den, prec) ==
    IF r = 0 THEN [m |-> m, e |-> e]
    ELSE IF Len(m) >= prec
         THEN LET up == 2 * r > den \/ (2 * r = den /\ m[Len(m)] = 1)
              IN  [m |-> IF up THEN IncBits(m) ELSE m, e |-> e]
    ELSE LET b  == (2 * r) \div den
             m2 == IF m = <<>> /\ b = 0 THEN <<>> ELSE Append(m, b)
         IN  DivGen(m2, (2 * r) % den, e - 1, den, prec)

DivFloat(num, den, prec) == DivGen(NatToBits(num \div den), num % den, 0, den, prec)

\* float * small natural, rounded
MulFloat(f, n, prec) == RoundBits(MulBits(f.m, n, 0), f.e, prec)

\* "as i32" of a float >= 0: the integer part
TruncFloat(f) ==
    IF f.m = <<>> THEN 0
    ELSE IF f.e >= 0 THEN BitsToNat(f.m) * Pow2(f.e)
    ELSE IF -f.e >= Len(f.m) THEN 0
    ELSE BitsToNat(SubSeq(f.m, 1, Len(f.m) + f.e))

Clamp(v, lo, hi) == IF v < lo THEN lo ELSE IF v > hi THEN hi ELSE v

Abs(v) == IF v < 0 THEN -v ELSE v

(***************************************************************************)
(* Thresholds, lines 73-84.  Percentages are whole numbers here (10.0 is   *)
(* 10), which every f32 and f64 holds exactly.                             *)
(***************************************************************************)
\* 255.0 / 100.0 in f64 (line 74)
ChannelScale == DivFloat(255, 100, F64Precision)

\* line 74: ((pixel_threshold * (255.0 / 100.0)) as i32).clamp(0, 255)
PixelThresholdOf(pct) ==
    LET product == MulFloat(ChannelScale, Abs(pct), F64Precision)
        as_i32  == IF pct < 0 THEN -TruncFloat(product) ELSE TruncFloat(product)
    IN  Clamp(as_i32, 0, 255)

\* line 77: (image_threshold / 100.0f32).clamp(0.0, 1.0)
ImageThresholdOf(pct) ==
    LET q == DivFloat(Abs(pct), 100, F32Precision)
    IN  IF pct <= 0 THEN [m |-> <<>>, e |-> 0]
        ELSE IF TruncFloat(q) >= 1 THEN [m |-> <<1>>, e |-> 0]
        ELSE q

\* line 84: (thumb_len as f32 * image_threshold) as i32
PixelCountThresholdOf(thumb_len, pct) ==
    TruncFloat(MulFloat(ImageThresholdOf(pct), thumb_len, F32Precision))

(***************************************************************************)
(* Buffers are sequences; the code's indices start at 0.                   *)
(***************************************************************************)
At(buf, i) == buf[i + 1]
InBounds(buf, i) == 0 <= i /\ i < Len(buf)
Zeros(n) == [i \in 1..n |-> 0]

(***************************************************************************)
(* update_thumbnail, lines 95-132: the reduction of one frame into thumb.  *)
(* An index outside the buffer panics (Rust checks every index); the       *)
(* result keeps what had been written until then.                          *)
(***************************************************************************)
\* lines 108-109
SubPixelIndex(source_x, source_y, x, y, width) ==
    (((source_y + y) * width) + (source_x + x)) * 3

\* lines 117-118
DestIndex(source_x, source_y, downsample, t_width) ==
    (((source_y \div downsample) * t_width) + (source_x \div downsample)) * 3

\* the mutant of the claims on the average: rounds half up
AverageRounded(sum, sample_count) ==
    Clamp((2 * sum + sample_count) \div (2 * sample_count), 0, 255)

\* lines 121-125: (resized_pixel[c] as usize / sample_count).clamp(0, 255) as u8
Average(sum, sample_count) == Clamp(sum \div sample_count, 0, 255)

\* the mutant of the claims on a short frame: a sample outside the frame reads 0
RECURSIVE BlockSumLenient(_, _, _, _, _, _, _)
BlockSumLenient(fr, source_x, source_y, width, downsample, k, acc) ==
    IF k >= downsample * downsample THEN [ok |-> TRUE, sum |-> acc]
    ELSE LET i == SubPixelIndex(source_x, source_y, k % downsample,
                                k \div downsample, width)
             v(j) == IF InBounds(fr, j) THEN At(fr, j) ELSE 0
         IN  BlockSumLenient(fr, source_x, source_y, width, downsample, k + 1,
                             <<acc[1] + v(i), acc[2] + v(i + 1), acc[3] + v(i + 2)>>)

\* lines 105-115: the sums of the block at (source_x, source_y), sample k onwards
\* (k = y * downsample + x); ok is FALSE when a read leaves the frame
RECURSIVE BlockSum(_, _, _, _, _, _, _)
BlockSum(fr, source_x, source_y, width, downsample, k, acc) ==
    IF k >= downsample * downsample THEN [ok |-> TRUE, sum |-> acc]
    ELSE LET i == SubPixelIndex(source_x, source_y, k % downsample,
                                k \div downsample, width)
         IN  IF ~(InBounds(fr, i) /\ InBounds(fr, i + 1) /\ InBounds(fr, i + 2))
             THEN [ok |-> FALSE, sum |-> acc]
             ELSE BlockSum(fr, source_x, source_y, width, downsample, k + 1,
                           <<acc[1] + At(fr, i), acc[2] + At(fr, i + 1),
                             acc[3] + At(fr, i + 2)>>)

\* lines 101-131: the two while loops, from block (source_x, source_y) onwards
RECURSIVE ReduceFrom(_, _, _, _, _, _, _, _)
ReduceFrom(fr, thumb, source_x, source_y, width, height, downsample, t_width) ==
    IF source_y >= height THEN [ok |-> TRUE, thumb |-> thumb]
    ELSE IF source_x >= width
         THEN ReduceFrom(fr, thumb, 0, source_y + downsample, width, height,
                         downsample, t_width)
    ELSE LET b    == BlockSum(fr, source_x, source_y, width, downsample, 0, <<0, 0, 0>>)
             dest == DestIndex(source_x, source_y, downsample, t_width)
             n    == downsample * downsample
         IN  IF ~b.ok \/ ~InBounds(thumb, dest) \/ ~InBounds(thumb, dest + 2)
             THEN [ok |-> FALSE, thumb |-> thumb]
             ELSE ReduceFrom(fr,
                             [thumb EXCEPT ![dest + 1] = Average(b.sum[1], n),
                                           ![dest + 2] = Average(b.sum[2], n),
                                           ![dest + 3] = Average(b.sum[3], n)],
                             source_x + downsample, source_y, width, height,
                             downsample, t_width)

UpdateThumbnail(fr, thumb, width, height, downsample, t_width) ==
    ReduceFrom(fr, thumb, 0, 0, width, height, downsample, t_width)

(***************************************************************************)
(* Pixel change detection, lines 172-191.                                  *)
(***************************************************************************)
\* the mutants of the claims on the pixel test
PixelChangedStrict(diff_r, diff_g, diff_b, threshold) ==
    diff_r > threshold \/ diff_g > threshold \/ diff_b > threshold
PixelChangedAll(diff_r, diff_g, diff_b, threshold) ==
    diff_r >= threshold /\ diff_g >= threshold /\ diff_b >= threshold
PixelChangedBelow(diff_r, diff_g, diff_b, threshold) ==
    diff_r <= threshold \/ diff_g <= threshold \/ diff_b <= threshold

\* lines 184-186
PixelChanged(diff_r, diff_g, diff_b, threshold) ==
    diff_r >= threshold \/ diff_g >= threshold \/ diff_b >= threshold

\* lines 173-191: the two for loops, from pixel (x, y) onwards
RECURSIVE CountFrom(_, _, _, _, _, _, _)
CountFrom(previous, current, x, y, t_width, t_height, threshold) ==
    IF y >= t_height THEN 0
    ELSE IF x >= t_width
         THEN CountFrom(previous, current, 0, y + 1, t_width, t_height, threshold)
    ELSE LET index  == ((y * t_width) + x) * 3
             diff_r == Abs(At(current, index) - At(previous, index))
             diff_g == Abs(At(current, index + 1) - At(previous, index + 1))
             diff_b == Abs(At(current, index + 2) - At(previous, index + 2))
         IN  (IF PixelChanged(diff_r, diff_g, diff_b, threshold) THEN 1 ELSE 0)
             + CountFrom(previous, current, x + 1, y, t_width, t_height, threshold)

ChangedPixels(previous, current, t_width, t_height, threshold) ==
    CountFrom(previous, current, 0, 0, t_width, t_height, threshold)

(***************************************************************************)
(* Pacing, lines 163-169.  A tick is a millisecond, so as_millis is the    *)
(* identity on a number of ticks.                                          *)
(***************************************************************************)
\* the time to sleep; 0 when the loop does not sleep
WaitTime(processing_time, interval) ==
    IF processing_time < interval
    THEN LET wait == interval - processing_time
         IN  IF wait > 1 THEN wait ELSE 0
    ELSE 0

\* line 166: Duration::as_millis, the whole milliseconds of a duration held in
\* ticks of which ticks_per_milli make a millisecond
AsMillis(d, ticks_per_milli) == d \div ticks_per_milli

\* the mutant of the claims on the pacing: sleeps the remainder however small
WaitTimeNoFloor(processing_time, interval, ticks_per_milli) ==
    IF processing_time < interval THEN interval - processing_time ELSE 0

\* lines 163-169 on a clock finer than a millisecond
WaitTimeAt(processing_time, interval, ticks_per_milli) ==
    IF processing_time < interval
    THEN LET wait == interval - processing_time
         IN  IF AsMillis(wait, ticks_per_milli) > 1 THEN wait ELSE 0
    ELSE 0

(***************************************************************************)
(* The motion state machine, lines 194-210.                                *)
(***************************************************************************)
\* the mutant of the claims on the image threshold
IsMotionAtLeast(changed, count_threshold) == changed >= count_threshold

\* line 194
IsMotion(changed, count_threshold) == changed > count_threshold

\* the mutant of the claims on the tail
TailElapsedAtLeast(time, t_now, tail) == t_now - time >= tail

\* line 205: time.elapsed() > motion_tail_length
TailElapsed(time, t_now, tail) == t_now - time > tail

\* the mutants of the claims on the flip and on the start
MotionStepAlwaysFlip(changed, count_threshold, latest, t_now, tail, previous, current) ==
    IF IsMotion(changed, count_threshold)
    THEN [latest   |-> Some(t_now),
          previous |-> 1 - previous,
          current  |-> 1 - current,
          printed  |-> IF IsNone(latest) THEN "start" ELSE ""]
    ELSE LET stop == ~IsNone(latest) /\ TailElapsed(Unwrap(latest), t_now, tail)
         IN  [latest   |-> IF stop THEN None ELSE latest,
              previous |-> 1 - previous,
              current  |-> 1 - current,
              printed  |-> IF stop THEN "stop" ELSE ""]
MotionStepRepeatStart(changed, count_threshold, latest, t_now, tail, previous, current) ==
    IF IsMotion(changed, count_threshold)
    THEN [latest   |-> Some(t_now),
          previous |-> 1 - previous,
          current  |-> 1 - current,
          printed  |-> "start"]
    ELSE LET stop == ~IsNone(latest) /\ TailElapsed(Unwrap(latest), t_now, tail)
         IN  [latest   |-> IF stop THEN None ELSE latest,
              previous |-> previous,
              current  |-> current,
              printed  |-> IF stop THEN "stop" ELSE ""]

\* the mutant of the claims on the baseline: the flip is left out
MotionStepNeverFlip(changed, count_threshold, latest, t_now, tail, previous, current) ==
    IF IsMotion(changed, count_threshold)
    THEN [latest   |-> Some(t_now),
          previous |-> previous,
          current  |-> current,
          printed  |-> IF IsNone(latest) THEN "start" ELSE ""]
    ELSE LET stop == ~IsNone(latest) /\ TailElapsed(Unwrap(latest), t_now, tail)
         IN  [latest   |-> IF stop THEN None ELSE latest,
              previous |-> previous,
              current  |-> current,
              printed  |-> IF stop THEN "stop" ELSE ""]

\* the mutant of the claims on the two indices: the flip swaps one of them only
MotionStepFlipPreviousOnly(changed, count_threshold, latest, t_now, tail, previous, current) ==
    IF IsMotion(changed, count_threshold)
    THEN [latest   |-> Some(t_now),
          previous |-> 1 - previous,
          current  |-> current,
          printed  |-> IF IsNone(latest) THEN "start" ELSE ""]
    ELSE LET stop == ~IsNone(latest) /\ TailElapsed(Unwrap(latest), t_now, tail)
         IN  [latest   |-> IF stop THEN None ELSE latest,
              previous |-> previous,
              current  |-> current,
              printed  |-> IF stop THEN "stop" ELSE ""]

\* the mutant of the claims on the end of the tail: while Active, an iteration
\* without motion that does not stop also restarts the tail
MotionStepRestartTail(changed, count_threshold, latest, t_now, tail, previous, current) ==
    IF IsMotion(changed, count_threshold)
    THEN [latest   |-> Some(t_now),
          previous |-> 1 - previous,
          current  |-> 1 - current,
          printed  |-> IF IsNone(latest) THEN "start" ELSE ""]
    ELSE LET stop == ~IsNone(latest) /\ TailElapsed(Unwrap(latest), t_now, tail)
         IN  [latest   |-> IF stop \/ IsNone(latest) THEN None ELSE Some(t_now),
              previous |-> previous,
              current  |-> current,
              printed  |-> IF stop THEN "stop" ELSE ""]

\* lines 194-210: what one comparison result does to the machine and the buffers
MotionStep(changed, count_threshold, latest, t_now, tail, previous, current) ==
    IF IsMotion(changed, count_threshold)
    THEN [latest   |-> Some(t_now),
          previous |-> 1 - previous,
          current  |-> 1 - current,
          printed  |-> IF IsNone(latest) THEN "start" ELSE ""]
    ELSE LET stop == ~IsNone(latest) /\ TailElapsed(Unwrap(latest), t_now, tail)
         IN  [latest   |-> IF stop THEN None ELSE latest,
              previous |-> previous,
              current  |-> current,
              printed  |-> IF stop THEN "stop" ELSE ""]

(***************************************************************************)
(* Bounds of the model and the inputs drawn within them.                   *)
(***************************************************************************)
MaxCaptureWidth == 3
MaxCaptureHeight == 2
MaxDownsample == 2
MaxThumbLen == 2
MaxTime == 12

\* <<capture_width, capture_height, downsample>>: every geometry within the
\* bounds, those the downsample factor does not divide included
Geometries ==
    {g \in (1..MaxCaptureWidth) \X (1..MaxCaptureHeight) \X (1..MaxDownsample) :
        (g[1] \div g[3]) * (g[2] \div g[3]) <= MaxThumbLen}

PixelThresholdPcts == {0, 5, 10}
ImageThresholdPcts == {0, 50, 100}
TailLengths == {3}
CaptureIntervals == {3}
WarmUps == {2}

Settings ==
    {[capture_width          |-> g[1],
      capture_height         |-> g[2],
      downsample             |-> g[3],
      pixel_threshold        |-> pp,
      image_threshold        |-> ip,
      camera_warm_up         |-> wu,
      motion_tail_length     |-> tl,
      frame_capture_interval |-> ci] :
        g \in Geometries, pp \in PixelThresholdPcts, ip \in ImageThresholdPcts,
        wu \in WarmUps, tl \in TailLengths, ci \in CaptureIntervals}

\* the time stream.next() blocks, in ticks
CaptureDelays == {1, 2, 3}

\* the time stream.next() blocks for each of the two frames taken before the loop
InitDelays == {1}

\* the grey levels of the frames of the loop: equal, or 25 apart, which is the
\* pixel threshold of 10% and above that of 5%
GreyLevels == {0, 25}

\* the frame whose complete block b (row-major) is grey level levels[b + 1] on
\* every sample and channel; samples outside the complete blocks are 0
BlockFrame(c, levels) ==
    LET tw == c.capture_width \div c.downsample
        th == c.capture_height \div c.downsample
    IN  [i \in 1..(c.capture_width * c.capture_height * 3) |->
            LET p  == (i - 1) \div 3
                bx == (p % c.capture_width) \div c.downsample
                by == (p \div c.capture_width) \div c.downsample
            IN  IF bx < tw /\ by < th THEN levels[by * tw + bx + 1] ELSE 0]

BlockCount(c) == (c.capture_width \div c.downsample) * (c.capture_height \div c.downsample)

GreyFrames(c) == {BlockFrame(c, levels) : levels \in [1..BlockCount(c) -> GreyLevels]}

\* a frame one pixel short of width * height * 3 bytes
ShortFrame(c) == Zeros((c.capture_width * c.capture_height - 1) * 3)

\* frames shorter than width * height * 3 bytes: by one pixel, by one byte, empty
ShortFrames(c) ==
    {ShortFrame(c), Zeros(c.capture_width * c.capture_height * 3 - 1), <<>>}

\* what stream.next() may return (lines 96-99)
StreamResults(c) ==
    {[kind |-> "frame", data |-> f] : f \in GreyFrames(c) \cup ShortFrames(c)}
    \cup {[kind |-> "dead", data |-> <<>>], [kind |-> "none", data |-> <<>>]}

(***************************************************************************)
(* The program.                                                            *)
(***************************************************************************)
thumb_len == thumb_width * thumb_height

\* the mutant of the claims on a failed capture: the call returns without a
\* frame and the thumbnail stays as it was
CaptureSkipFailure(input, thumb) ==
    IF input.kind # "frame" THEN [ok |-> TRUE, thumb |-> thumb, msg |-> ""]
    ELSE LET r == UpdateThumbnail(input.data, thumb, cfg.capture_width,
                                  cfg.capture_height, cfg.downsample, thumb_width)
         IN  [ok |-> r.ok, thumb |-> r.thumb,
              msg |-> IF r.ok THEN "" ELSE "index out of bounds"]

\* one call of the closure update_thumbnail (lines 95-132) on buffer thumb
Capture(input, thumb) ==
    IF input.kind = "dead" THEN [ok |-> FALSE, thumb |-> thumb, msg |-> "Stream is dead"]
    ELSE IF input.kind = "none"
         THEN [ok |-> FALSE, thumb |-> thumb, msg |-> "Failed to capture frame"]
    ELSE LET r == UpdateThumbnail(input.data, thumb, cfg.capture_width,
                                  cfg.capture_height, cfg.downsample, thumb_width)
         IN  [ok |-> r.ok, thumb |-> r.thumb,
              msg |-> IF r.ok THEN "" ELSE "index out of bounds"]

Init ==
    /\ pc = "config"
    /\ cfg \in Settings
    /\ pixel_threshold = 0
    /\ pixel_count_threshold = 0
    /\ thumb_width = 0
    /\ thumb_height = 0
    /\ thumbs = <<<<>>, <<>>>>
    /\ previous_thumb = 0
    /\ current_thumb = 1
    /\ now = 0
    /\ last_frame_time = 0
    /\ latest_movement_time = None
    /\ frame = <<>>
    /\ changed_pixels = 0
    /\ wait_time = 0
    /\ printed = ""
    /\ fed = <<>>

\* lines 73-91 and 134-137: thresholds, thumbnail buffers, time keeping
Startup ==
    /\ pc = "config"
    /\ pixel_threshold' = PixelThresholdOf(cfg.pixel_threshold)
    /\ thumb_width' = cfg.capture_width \div cfg.downsample
    /\ thumb_height' = cfg.capture_height \div cfg.downsample
    /\ pixel_count_threshold' =
           PixelCountThresholdOf(thumb_width' * thumb_height', cfg.image_threshold)
    /\ previous_thumb' = 0
    /\ current_thumb' = 1
    /\ thumbs' = <<Zeros(thumb_width' * thumb_height' * 3),
                   Zeros(thumb_width' * thumb_height' * 3)>>
    /\ last_frame_time' = now
    /\ latest_movement_time' = None
    /\ pc' = "warmup"
    /\ UNCHANGED <<cfg, now, frame, changed_pixels, wait_time, printed, fed>>

\* lines 139-141
WarmUp ==
    /\ pc = "warmup"
    /\ printed' = "warming up"
    /\ now' = now + cfg.camera_warm_up
    /\ pc' = "init_previous"
    /\ UNCHANGED <<cfg, pixel_threshold, pixel_count_threshold, thumb_width,
                   thumb_height, thumbs, previous_thumb, current_thumb,
                   last_frame_time, latest_movement_time, frame, changed_pixels,
                   wait_time, fed>>

\* a panic unwinds main: its locals are dropped, the message is printed
Panic(msg) ==
    /\ pc' = "panicked"
    /\ printed' = msg
    /\ thumbs' = <<<<>>, <<>>>>
    /\ frame' = <<>>
    /\ previous_thumb' = 0
    /\ current_thumb' = 1
    /\ last_frame_time' = 0
    /\ latest_movement_time' = None
    /\ changed_pixels' = 0
    /\ wait_time' = 0
    /\ UNCHANGED <<cfg, pixel_threshold, pixel_count_threshold, thumb_width,
                   thumb_height, now, fed>>

\* the mutant of the claims on the start-up captures: both go into the current
\* slot, the previous slot keeps its zeros
InitThumbnailCurrentTwice ==
    /\ pc \in {"init_previous", "init_current"}
    /\ \E input \in StreamResults(cfg), delay \in InitDelays :
       \E r \in {Capture(input, thumbs[current_thumb + 1])} :
         IF r.ok
         THEN /\ thumbs' = [thumbs EXCEPT ![current_thumb + 1] = r.thumb]
              /\ frame' = input.data
              /\ now' = now + delay
              /\ pc' = IF pc = "init_previous" THEN "init_current" ELSE "loop"
              /\ printed' = IF pc = "init_previous" THEN "" ELSE "ready"
              /\ UNCHANGED <<cfg, pixel_threshold, pixel_count_threshold, thumb_width,
                             thumb_height, previous_thumb, current_thumb,
                             last_frame_time, latest_movement_time, changed_pixels,
                             wait_time, fed>>
         ELSE Panic(r.msg)

\* lines 143-145 (and 156): the two thumbnails taken before the loop
InitThumbnail ==
    /\ pc \in {"init_previous", "init_current"}
    /\ \E input \in StreamResults(cfg), delay \in InitDelays :
       \E slot \in {IF pc = "init_previous" THEN previous_thumb ELSE current_thumb} :
       \E r \in {Capture(input, thumbs[slot + 1])} :
         IF r.ok
         THEN /\ thumbs' = [thumbs EXCEPT ![slot + 1] = r.thumb]
              /\ frame' = input.data
              /\ now' = now + delay
              /\ pc' = IF pc = "init_previous" THEN "init_current" ELSE "loop"
              /\ printed' = IF pc = "init_previous" THEN "" ELSE "ready"
              /\ UNCHANGED <<cfg, pixel_threshold, pixel_count_threshold, thumb_width,
                             thumb_height, previous_thumb, current_thumb,
                             last_frame_time, latest_movement_time, changed_pixels,
                             wait_time, fed>>
         ELSE Panic(r.msg)

\* lines 157-169: the capture into the current slot and the pacing sleep;
\* lines 171-212: the comparison, the state machine and the cycle's timestamp.
\* (Each value is bound once, in the order the code computes it.)
Cycle ==
    /\ pc = "loop"
    /\ \E input \in StreamResults(cfg), delay \in CaptureDelays :
       \E r \in {Capture(input, thumbs[current_thumb + 1])} :
         IF r.ok
         THEN \E captured \in {[thumbs EXCEPT ![current_thumb + 1] = r.thumb]} :
              \E processing_time \in {(now + delay) - last_frame_time} :
              \E wait \in {WaitTime(processing_time, cfg.frame_capture_interval)} :
              \E t_now \in {now + delay + wait} :
              \E changed \in {ChangedPixels(captured[previous_thumb + 1],
                                            captured[current_thumb + 1],
                                            thumb_width, thumb_height,
                                            pixel_threshold)} :
              \E m \in {MotionStep(changed, pixel_count_threshold,
                                   latest_movement_time, t_now,
                                   cfg.motion_tail_length,
                                   previous_thumb, current_thumb)} :
                /\ t_now <= MaxTime
                /\ thumbs' = captured
                /\ frame' = input.data
                /\ wait_time' = wait
                /\ changed_pixels' = changed
                /\ latest_movement_time' = m.latest
                /\ previous_thumb' = m.previous
                /\ current_thumb' = m.current
                /\ printed' = m.printed
                /\ now' = t_now
                /\ last_frame_time' = t_now
                /\ pc' = "loop"
                /\ UNCHANGED <<cfg, pixel_threshold, pixel_count_threshold,
                               thumb_width, thumb_height, fed>>
         ELSE Panic(r.msg)

Next == Startup \/ WarmUp \/ InitThumbnail \/ Cycle

Spec == Init /\ [][Next]_vars

(***************************************************************************)
(* The program running for ever.  The code reads its Instants only through *)
(* elapsed(), that is as differences from the clock, so the loop below     *)
(* keeps them relative: at the end of an iteration the origin of the clock *)
(* is moved to latest_movement_time when there is one and to the current   *)
(* time when there is none.  The iteration is that of Cycle otherwise.     *)
(***************************************************************************)
CycleLive ==
    /\ pc = "loop"
    /\ \E input \in StreamResults(cfg), delay \in CaptureDelays :
       \E r \in {Capture(input, thumbs[current_thumb + 1])} :
         IF r.ok
         THEN \E captured \in {[thumbs EXCEPT ![current_thumb + 1] = r.thumb]} :
              \E processing_time \in {(now + delay) - last_frame_time} :
              \E wait \in {WaitTime(processing_time, cfg.frame_capture_interval)} :
              \E t_now \in {now + delay + wait} :
              \E changed \in {ChangedPixels(captured[previous_thumb + 1],
                                            captured[current_thumb + 1],
                                            thumb_width, thumb_height,
                                            pixel_threshold)} :
              \E m \in {MotionStep(changed, pixel_count_threshold,
                                   latest_movement_time, t_now,
                                   cfg.motion_tail_length,
                                   previous_thumb, current_thumb)} :
              \E origin \in {IF IsNone(m.latest) THEN t_now ELSE Unwrap(m.latest)} :
                /\ thumbs' = captured
                /\ frame' = input.data
                /\ wait_time' = wait
                /\ changed_pixels' = changed
                /\ latest_movement_time' =
                       IF IsNone(m.latest) THEN None ELSE Some(Unwrap(m.latest) - origin)
                /\ previous_thumb' = m.previous
                /\ current_thumb' = m.current
                /\ printed' = m.printed
                /\ now' = t_now - origin
                /\ last_frame_time' = t_now - origin
                /\ pc' = "loop"
                /\ UNCHANGED <<cfg, pixel_threshold, pixel_count_threshold,
                               thumb_width, thumb_height, fed>>
         ELSE Panic(r.msg)

NextLive == Startup \/ WarmUp \/ InitThumbnail \/ CycleLive

\* the settings of the endless run: a thumbnail of two pixels
LiveSettings ==
    {c \in Settings : /\ c.capture_width = 2
                      /\ c.capture_height = 1
                      /\ c.downsample = 1
                      /\ c.pixel_threshold = 10
                      /\ c.image_threshold \in {0, 50}}

InitLive ==
    /\ pc = "config"
    /\ cfg \in LiveSettings
    /\ pixel_threshold = 0
    /\ pixel_count_threshold = 0
    /\ thumb_width = 0
    /\ thumb_height = 0
    /\ thumbs = <<<<>>, <<>>>>
    /\ previous_thumb = 0
    /\ current_thumb = 1
    /\ now = 0
    /\ last_frame_time = 0
    /\ latest_movement_time = None
    /\ frame = <<>>
    /\ changed_pixels = 0
    /\ wait_time = 0
    /\ printed = ""
    /\ fed = <<>>

\* the loop takes its next iteration whenever stream.next() returns, which it
\* does as long as the camera delivers (or fails)
SpecLive == InitLive /\ [][NextLive]_vars /\ WF_vars(CycleLive)

(***************************************************************************)
(* The threshold conversion alone: Startup on every whole percentage from  *)
(* a little below 0 to a little above 100.                                 *)
(***************************************************************************)
PctMargin == 10

ThresholdSettings ==
    {[capture_width          |-> 2,
      capture_height         |-> 2,
      downsample             |-> 2,
      pixel_threshold        |-> pp,
      image_threshold        |-> ip,
      camera_warm_up         |-> 2,
      motion_tail_length     |-> 3,
      frame_capture_interval |-> 3] :
        pp \in (0 - PctMargin)..(100 + PctMargin), ip \in {0, 20, 100}}

InitThreshold ==
    /\ pc = "config"
    /\ cfg \in ThresholdSettings
    /\ pixel_threshold = 0
    /\ pixel_count_threshold = 0
    /\ thumb_width = 0
    /\ thumb_height = 0
    /\ thumbs = <<<<>>, <<>>>>
    /\ previous_thumb = 0
    /\ current_thumb = 1
    /\ now = 0
    /\ last_frame_time = 0
    /\ latest_movement_time = None
    /\ frame = <<>>
    /\ changed_pixels = 0
    /\ wait_time = 0
    /\ printed = ""
    /\ fed = <<>>

SpecThreshold == InitThreshold /\ [][Startup]_vars

(***************************************************************************)
(* The reducer alone: update_thumbnail applied once to a frame of patterns.*)
(***************************************************************************)
MaxReduceWidth == 2
MaxReduceHeight == 2
MaxReduceDownsample == 3
MaxRemainder == 1

\* <<capture_width, capture_height, downsample>>: thumbnails of up to
\* MaxReduceWidth x MaxReduceHeight blocks, with up to MaxRemainder spare columns
\* and up to MaxRemainder spare rows
ReduceGeometries ==
    {g \in (1..(MaxReduceWidth * MaxReduceDownsample + MaxRemainder))
           \X (1..(MaxReduceHeight * MaxReduceDownsample + MaxRemainder))
           \X (1..MaxReduceDownsample) :
        /\ g[1] \div g[3] \in 1..MaxReduceWidth
        /\ g[1] % g[3] <= MaxRemainder
        /\ g[2] \div g[3] \in 1..MaxReduceHeight
        /\ g[2] % g[3] <= MaxRemainder}

\* the byte at frame offset i (channel included) of sample k of its block:
\* a constant, 0 and 255 in turn, or values that differ from byte to byte
PatternByte(pattern, i, k) ==
    CASE pattern = "low"   -> 7
      [] pattern = "high"  -> 255
      [] pattern = "alt"   -> 255 * (k % 2)
      [] pattern = "mixed" -> (37 * i + 11) % 256

Patterns == <<"low", "high", "alt", "mixed">>

\* the frame whose block b carries Patterns[(b + shift) % 4 + 1], or all blocks
\* pattern number shift - 4 when shift >= 4; spare columns and rows are "mixed"
PatternFrame(g, shift) ==
    LET w  == g[1]
        ds == g[3]
        tw == w \div ds
    IN  [j \in 1..(w * g[2] * 3) |->
            LET p  == (j - 1) \div 3
                x  == p % w
                y  == p \div w
                b  == (y \div ds) * tw + (x \div ds)
                k  == (y % ds) * ds + (x % ds)
            IN  IF x \div ds >= tw \/ y \div ds >= g[2] \div ds
                THEN PatternByte("mixed", j - 1, k)
                ELSE IF shift >= 4 THEN PatternByte(Patterns[shift - 3], j - 1, k)
                ELSE PatternByte(Patterns[((b + shift) % 4) + 1], j - 1, k)]

InitReduce ==
    /\ pc = "reduce"
    /\ \E g \in ReduceGeometries, shift \in 0..7 :
         /\ cfg = [capture_width          |-> g[1],
                   capture_height         |-> g[2],
                   downsample             |-> g[3],
                   pixel_threshold        |-> 10,
                   image_threshold        |-> 20,
                   camera_warm_up         |-> 2,
                   motion_tail_length     |-> 3,
                   frame_capture_interval |-> 3]
         /\ frame = PatternFrame(g, shift)
         /\ thumb_width = g[1] \div g[3]
         /\ thumb_height = g[2] \div g[3]
         /\ thumbs = <<Zeros((g[1] \div g[3]) * (g[2] \div g[3]) * 3),
                       Zeros((g[1] \div g[3]) * (g[2] \div g[3]) * 3)>>
    /\ pixel_threshold = 0
    /\ pixel_count_threshold = 0
    /\ previous_thumb = 0
    /\ current_thumb = 1
    /\ now = 0
    /\ last_frame_time = 0
    /\ latest_movement_time = None
    /\ changed_pixels = 0
    /\ wait_time = 0
    /\ printed = ""
    /\ fed = <<>>

\* lines 101-131 applied to the frame at hand, into the current slot
ApplyReduce ==
    /\ pc = "reduce"
    /\ \E r \in {UpdateThumbnail(frame, thumbs[current_thumb + 1], cfg.capture_width,
                                 cfg.capture_height, cfg.downsample, thumb_width)} :
         /\ thumbs' = [thumbs EXCEPT ![current_thumb + 1] = r.thumb]
         /\ pc' = IF r.ok THEN "reduced" ELSE "panicked"
         /\ printed' = IF r.ok THEN "" ELSE "index out of bounds"
    /\ UNCHANGED <<cfg, pixel_threshold, pixel_count_threshold, thumb_width,
                   thumb_height, previous_thumb, current_thumb, now, last_frame_time,
                   latest_movement_time, frame, changed_pixels, wait_time, fed>>

SpecReduce == InitReduce /\ [][ApplyReduce]_vars

(***************************************************************************)
(* The differencer alone: lines 172-191 applied once to two thumbnails.    *)
(***************************************************************************)
MaxDiffWidth == 2

DiffThresholds == {0, 1, 25, 254, 255}
DiffBases == {0, 3}

\* the previous thumbnail is the base everywhere; a current pixel has each channel
\* at the base, or above it by one less than the threshold, or by the threshold
DiffPixels(base, threshold) ==
    {px \in [1..3 -> {base + d : d \in {0, threshold - 1, threshold}}] :
        \A c \in 1..3 : px[c] \in 0..255}

\* the thumbnail made of the pixels pxs
Flatten(pxs) == [i \in 1..(3 * Len(pxs)) |-> pxs[((i - 1) \div 3) + 1][((i - 1) % 3) + 1]]

InitDiff ==
    /\ pc = "compare"
    /\ pixel_threshold \in DiffThresholds
    /\ thumb_width \in 1..MaxDiffWidth
    /\ thumb_height = 1
    /\ \E base \in DiffBases :
       \E pxs \in [1..thumb_width -> DiffPixels(base, pixel_threshold)] :
         thumbs = <<[i \in 1..(3 * thumb_width) |-> base], Flatten(pxs)>>
    /\ cfg \in {c \in ThresholdSettings : c.pixel_threshold = 10 /\ c.image_threshold = 20}
    /\ pixel_count_threshold = 0
    /\ previous_thumb = 0
    /\ current_thumb = 1
    /\ now = 0
    /\ last_frame_time = 0
    /\ latest_movement_time = None
    /\ frame = <<>>
    /\ changed_pixels = 0
    /\ wait_time = 0
    /\ printed = ""
    /\ fed = <<>>

\* lines 172-191 applied to the two thumbnails at hand
ApplyDiff ==
    /\ pc = "compare"
    /\ changed_pixels' = ChangedPixels(thumbs[previous_thumb + 1],
                                       thumbs[current_thumb + 1],
                                       thumb_width, thumb_height, pixel_threshold)
    /\ pc' = "compared"
    /\ UNCHANGED <<cfg, pixel_threshold, pixel_count_threshold, thumb_width,
                   thumb_height, thumbs, previous_thumb, current_thumb, now,
                   last_frame_time, latest_movement_time, frame, wait_time,
                   printed, fed>>

SpecDiff == InitDiff /\ [][ApplyDiff]_vars

(***************************************************************************)
(* The state machine alone: lines 194-210 fed with changed-pixel counts at *)
(* chosen intervals (a tick is a second here).  fed records each sample as *)
(* <<count, interval, line printed>>.                                      *)
(***************************************************************************)
MaxSamples == 6

FedCounts == {0, 1000}
FedIntervals == {1, 2}
\* the scenario's pixel_count_threshold and motion_tail_length
FedScenario == [count_threshold |-> 500, tail |-> 2]

InitMachine ==
    /\ pc = "machine"
    /\ cfg \in {[c EXCEPT !.motion_tail_length = FedScenario.tail] :
                  c \in {d \in ThresholdSettings :
                           d.pixel_threshold = 10 /\ d.image_threshold = 20}}
    /\ pixel_count_threshold = FedScenario.count_threshold
    /\ pixel_threshold = 0
    /\ thumb_width = 0
    /\ thumb_height = 0
    /\ thumbs = <<<<>>, <<>>>>
    /\ previous_thumb = 0
    /\ current_thumb = 1
    /\ now = 0
    /\ last_frame_time = 0
    /\ latest_movement_time = None
    /\ frame = <<>>
    /\ changed_pixels = 0
    /\ wait_time = 0
    /\ printed = ""
    /\ fed = <<>>

\* lines 194-212 applied to a given count, interval ticks after the last sample
FeedMachine ==
    /\ pc = "machine"
    /\ Len(fed) < MaxSamples
    /\ \E count \in FedCounts, interval \in FedIntervals :
       \E m \in {MotionStep(count, pixel_count_threshold, latest_movement_time,
                            now + interval, cfg.motion_tail_length,
                            previous_thumb, current_thumb)} :
         /\ changed_pixels' = count
         /\ now' = now + interval
         /\ last_frame_time' = now + interval
         /\ latest_movement_time' = m.latest
         /\ previous_thumb' = m.previous
         /\ current_thumb' = m.current
         /\ printed' = m.printed
         /\ fed' = Append(fed, <<count, interval, m.printed>>)
    /\ UNCHANGED <<pc, cfg, pixel_threshold, pixel_count_threshold, thumb_width,
                   thumb_height, thumbs, frame, wait_time>>

SpecMachine == InitMachine /\ [][FeedMachine]_vars

(***************************************************************************)
(* The pacing alone: lines 163-169 and 212 on a clock of PaceTicksPerMilli *)
(* ticks a millisecond, against the interval of 200 ms.  fed records each  *)
(* cycle as <<processing_time, time slept>>.                               *)
(***************************************************************************)
PaceTicksPerMilli == 2
MaxPaceCycles == 2
PaceIntervalMillis == 200

\* the time from the last timestamp to the end of update_thumbnail: close to
\* nothing, or close to the interval on either side of it
PaceProcessingTimes ==
    (0..(3 * PaceTicksPerMilli))
    \cup (((PaceIntervalMillis - 3) * PaceTicksPerMilli)
            ..((PaceIntervalMillis + 3) * PaceTicksPerMilli))

InitPace ==
    /\ pc = "pace"
    /\ cfg \in {[c EXCEPT !.frame_capture_interval = PaceIntervalMillis * PaceTicksPerMilli] :
                  c \in {d \in ThresholdSettings :
                           d.pixel_threshold = 10 /\ d.image_threshold = 20}}
    /\ pixel_count_threshold = 0
    /\ pixel_threshold = 0
    /\ thumb_width = 0
    /\ thumb_height = 0
    /\ thumbs = <<<<>>, <<>>>>
    /\ previous_thumb = 0
    /\ current_thumb = 1
    /\ now = 0
    /\ last_frame_time = 0
    /\ latest_movement_time = None
    /\ frame = <<>>
    /\ changed_pixels = 0
    /\ wait_time = 0
    /\ printed = ""
    /\ fed = <<>>

\* lines 163-169 and 212 of one iteration whose capture took delay ticks
Pace ==
    /\ pc = "pace"
    /\ Len(fed) < MaxPaceCycles
    /\ \E delay \in PaceProcessingTimes :
       \E processing_time \in {(now + delay) - last_frame_time} :
       \E wait \in {WaitTimeAt(processing_time, cfg.frame_capture_interval,
                                PaceTicksPerMilli)} :
         /\ wait_time' = wait
         /\ now' = now + delay + wait
         /\ last_frame_time' = now + delay + wait
         /\ fed' = Append(fed, <<processing_time, wait>>)
    /\ UNCHANGED <<pc, cfg, pixel_threshold, pixel_count_threshold, thumb_width,
                   thumb_height, thumbs, previous_thumb, current_thumb,
                   latest_movement_time, frame, changed_pixels, printed>>

SpecPace == InitPace /\ [][Pace]_vars

(***************************************************************************)
(* Properties.                                                             *)
(***************************************************************************)
\* a step that completes one iteration of the loop
CycleStep == pc = "loop" /\ pc' = "loop"

\* the state between two iterations, at least one iteration done
CycleDone == pc = "loop" /\ last_frame_time = now

Active == ~IsNone(latest_movement_time)

\* the largest per-channel absolute difference of pixel k of thumbnails a and b
MaxChannelDiff(a, b, k) ==
    LET d(c) == Abs(a[3 * k + c] - b[3 * k + c])
    IN  IF d(1) >= d(2) /\ d(1) >= d(3) THEN d(1)
        ELSE IF d(2) >= d(3) THEN d(2) ELSE d(3)

\* the pixels of the two buffers t whose largest difference is at least / above limit
PixelsAtLeast(t, limit) ==
    {k \in 0..((Len(t[1]) \div 3) - 1) : MaxChannelDiff(t[1], t[2], k) >= limit}
PixelsAbove(t, limit) ==
    {k \in 0..((Len(t[1]) \div 3) - 1) : MaxChannelDiff(t[1], t[2], k) > limit}

\* C1: "start" is printed in a step if and only if the step is a loop iteration
\* that began Idle (latest_movement_time None) and counted more changed pixels
\* than pixel_count_threshold; so never in an iteration that began Active.
C1_StartIffIdleAndMotion ==
    [][(printed' = "start") <=>
         (/\ CycleStep
          /\ IsNone(latest_movement_time)
          /\ changed_pixels' > pixel_count_threshold)]_vars

C1_Witness == pc = "loop" /\ printed = "start" /\ Active

\* C2: "stop" is printed in a step if and only if the step is a loop iteration
\* that began Active, counted at most pixel_count_threshold changed pixels and
\* found more than motion_tail_length elapsed since latest_movement_time; that
\* iteration leaves the machine Idle.
C2_StopIffTailElapsed ==
    [][/\ (printed' = "stop") <=>
            (/\ CycleStep
             /\ Active
             /\ changed_pixels' <= pixel_count_threshold
             /\ now' - Unwrap(latest_movement_time) > cfg.motion_tail_length)
       /\ (printed' = "stop") => IsNone(latest_movement_time')]_vars

C2_Witness == pc = "loop" /\ printed = "stop" /\ IsNone(latest_movement_time)

\* the samples fed so far: their counts, their intervals and the lines printed
FedCountsSoFar == [i \in 1..Len(fed) |-> fed[i][1]]
FedIntervalsSoFar == [i \in 1..Len(fed) |-> fed[i][2]]
FedLines == [i \in 1..Len(fed) |-> fed[i][3]]
EverySecond == \A i \in 1..Len(fed) : fed[i][2] = 1

\* C3 as stated: the counts [0, 1000, 1000, 0, 0] at 1 s intervals against a
\* threshold of 500 and a tail of 2 s print one "start", at the 2nd sample, and
\* one "stop", at the 5th.
C3_AsStated ==
    (pc = "machine" /\ FedCountsSoFar = <<0, 1000, 1000, 0, 0>> /\ EverySecond)
        => FedLines = <<"", "start", "", "", "stop">>

\* C3, amended: the five samples print one "start", at the 2nd sample, and no
\* "stop": at the 5th sample exactly 2 s have elapsed since the 3rd, which is not
\* more than the tail, and the machine is still Active.  A 6th sample without
\* motion, 3 s after the 3rd, prints the one "stop".
C3_StopAtSixthSample ==
    /\ (pc = "machine" /\ FedCountsSoFar = <<0, 1000, 1000, 0, 0>> /\ EverySecond)
           => (FedLines = <<"", "start", "", "", "">> /\ Active)
    /\ (pc = "machine" /\ FedCountsSoFar = <<0, 1000, 1000, 0, 0, 0>> /\ EverySecond)
           => (FedLines = <<"", "start", "", "", "", "stop">> /\ ~Active)

C3_Witness ==
    /\ pc = "machine"
    /\ FedCountsSoFar = <<0, 1000, 1000, 0, 0, 0>>
    /\ EverySecond
    /\ printed = "stop"

\* C4: an iteration swaps previous_thumb and current_thumb exactly when it counts
\* more changed pixels than pixel_count_threshold and leaves both as they were
\* otherwise; no step of the loop writes the buffer that was "previous" when the
\* step began.
C4_FlipIffMotion ==
    [][/\ (pc = "loop" /\ pc' # "panicked")
            => thumbs'[previous_thumb + 1] = thumbs[previous_thumb + 1]
       /\ CycleStep =>
            IF changed_pixels' > pixel_count_threshold
            THEN previous_thumb' = current_thumb /\ current_thumb' = previous_thumb
            ELSE previous_thumb' = previous_thumb /\ current_thumb' = current_thumb]_vars

\* an iteration inside the tail window that captured a frame unlike the baseline
C4_Witness ==
    /\ CycleDone
    /\ Active
    /\ Unwrap(latest_movement_time) < now
    /\ changed_pixels <= pixel_count_threshold
    /\ changed_pixels > 0
    /\ thumbs[previous_thumb + 1] # thumbs[current_thumb + 1]

\* what an iteration that is not motion leaves alone: no "start", no new
\* latest_movement_time, no flip
NoMotionEffect ==
    /\ printed' # "start"
    /\ latest_movement_time' \in {latest_movement_time, None}
    /\ previous_thumb' = previous_thumb
    /\ current_thumb' = current_thumb

\* C5 as stated: equality is "no motion" at both thresholds: a count equal to
\* pixel_count_threshold has no effect of motion, and only the pixels whose
\* largest channel difference is above pixel_threshold are counted (read here
\* for thresholds of 1 and more, where two equal pixels are not at the threshold).
C5_AsStated ==
    [][CycleStep =>
         /\ (changed_pixels' = pixel_count_threshold) => NoMotionEffect
         /\ (pixel_threshold >= 1) =>
                changed_pixels' = Cardinality(PixelsAbove(thumbs', pixel_threshold))]_vars

\* C5, amended: a count equal to pixel_count_threshold is no motion (no "start",
\* no new latest_movement_time, no flip), but a pixel whose largest channel
\* difference equals pixel_threshold is counted as changed.
C5_TieIsNoMotionButPixelCounts ==
    [][CycleStep =>
         /\ (changed_pixels' = pixel_count_threshold) => NoMotionEffect
         /\ changed_pixels' = Cardinality(PixelsAtLeast(thumbs', pixel_threshold))]_vars

\* a count of 1 against a threshold of 1, the one pixel exactly at the threshold
C5_Witness ==
    /\ CycleDone
    /\ pixel_count_threshold >= 1
    /\ changed_pixels = pixel_count_threshold
    /\ pixel_threshold > 0
    /\ \E k \in 0..(thumb_len - 1) :
         MaxChannelDiff(thumbs[1], thumbs[2], k) = pixel_threshold

\* C6: an iteration that began Active prints nothing and keeps
\* latest_movement_time when it is not motion and at most motion_tail_length has
\* elapsed; it prints nothing and sets latest_movement_time to the current time
\* when it is motion.
C6_ActiveStaysQuiet ==
    [][(CycleStep /\ Active) =>
         /\ (/\ changed_pixels' <= pixel_count_threshold
             /\ now' - Unwrap(latest_movement_time) <= cfg.motion_tail_length)
                => (printed' = "" /\ latest_movement_time' = latest_movement_time)
         /\ (changed_pixels' > pixel_count_threshold)
                => (printed' = "" /\ latest_movement_time' = Some(now'))]_vars

\* Active, no motion, exactly motion_tail_length elapsed: still inside the window
C6_Witness ==
    /\ CycleDone
    /\ Active
    /\ now - Unwrap(latest_movement_time) = cfg.motion_tail_length
    /\ changed_pixels <= pixel_count_threshold
    /\ printed = ""

\* thumbnails a and b differ in the blue channel of one pixel, by exactly d, and
\* nowhere else
DifferOnlyInBlue(a, b, d) ==
    /\ d >= 1
    /\ \E k \in 0..((Len(a) \div 3) - 1) :
         \A i \in 1..Len(a) :
           IF i = 3 * k + 3 THEN Abs(a[i] - b[i]) = d ELSE a[i] = b[i]

\* C7: the differencer returns the number of pixels at which some channel differs
\* by at least the pixel threshold; two thumbnails that differ only in the blue
\* channel of one pixel, by exactly the threshold T, give 1, and give 0 against
\* the threshold T + 1.
C7_CountsAnyChannelAtLeast ==
    pc = "compared" =>
        /\ changed_pixels = Cardinality(PixelsAtLeast(thumbs, pixel_threshold))
        /\ DifferOnlyInBlue(thumbs[1], thumbs[2], pixel_threshold) =>
             /\ changed_pixels = 1
             /\ ChangedPixels(thumbs[previous_thumb + 1], thumbs[current_thumb + 1],
                              thumb_width, thumb_height, pixel_threshold + 1) = 0

C7_Witness ==
    /\ pc = "compared"
    /\ thumb_width >= 2
    /\ DifferOnlyInBlue(thumbs[1], thumbs[2], pixel_threshold)
    /\ changed_pixels = 1

\* an iteration that began Idle and ended Idle and compared two equal thumbnails
IdleAndEqual ==
    /\ CycleStep
    /\ IsNone(latest_movement_time)
    /\ IsNone(latest_movement_time')
    /\ thumbs'[1] = thumbs'[2]

\* C8 as stated: while Idle, comparing two equal thumbnails counts 0 changed
\* pixels, whatever the pixel threshold percentage in 0..100, 0 included.
C8_AsStated == [][IdleAndEqual => changed_pixels' = 0]_vars

\* C8, amended: while Idle, comparing two equal thumbnails counts 0 changed pixels
\* for every percentage whose threshold is at least 1 (every whole percentage
\* from 1 up); at 0% the threshold is 0 and every pixel of the thumbnail is
\* counted.
C8_EqualThumbnailsCountZeroAboveZero ==
    [][IdleAndEqual =>
         /\ (cfg.pixel_threshold >= 1) => (pixel_threshold >= 1 /\ changed_pixels' = 0)
         /\ (cfg.pixel_threshold = 0) => changed_pixels' = thumb_len]_vars

C8_Witness ==
    /\ CycleDone
    /\ IsNone(latest_movement_time)
    /\ printed = ""
    /\ thumbs[1] = thumbs[2]
    /\ thumbs[1][1] > 0
    /\ cfg.pixel_threshold >= 1
    /\ changed_pixels = 0

\* round(pct * 2.55), halves away from zero, for a whole percentage
RoundedScale(pct) ==
    IF pct >= 0 THEN (51 * pct + 10) \div 20 ELSE 0 - ((51 * (0 - pct) + 10) \div 20)

\* C9 as stated: the pixel threshold is round(pct * 2.55) clamped to [0, 255]:
\* 26 for 10, 0 for 0, 255 for 100.
C9_AsStated ==
    pc = "warmup" =>
        /\ pixel_threshold = Clamp(RoundedScale(cfg.pixel_threshold), 0, 255)
        /\ (cfg.pixel_threshold = 10) => pixel_threshold = 26
        /\ (cfg.pixel_threshold = 0) => pixel_threshold = 0
        /\ (cfg.pixel_threshold = 100) => pixel_threshold = 255

\* the samples of channel ch (0..2) of block (bx, by) of the frame, row by row
BlockSamples(bx, by, ch) ==
    [k \in 1..(cfg.downsample * cfg.downsample) |->
        LET x == bx * cfg.downsample + ((k - 1) % cfg.downsample)
            y == by * cfg.downsample + ((k - 1) \div cfg.downsample)
        IN  frame[(y * cfg.capture_width + x) * 3 + ch + 1]]

RECURSIVE SumSeq(_)
SumSeq(q) == IF q = <<>> THEN 0 ELSE q[1] + SumSeq(Tail(q))

\* C10: after a reduction every thumbnail pixel holds, per channel, the sum of the
\* samples of its block divided by their number; a block of constant c gives
\* exactly c, and a block of an even number of samples that are 0 and 255 in turn
\* gives 127, every time.
C10_BlockAverage ==
    pc = "reduced" =>
        \A bx \in 0..(thumb_width - 1), by \in 0..(thumb_height - 1), ch \in 0..2 :
            LET q == BlockSamples(bx, by, ch)
                v == At(thumbs[current_thumb + 1], (by * thumb_width + bx) * 3 + ch)
            IN  /\ v = SumSeq(q) \div Len(q)
                /\ (\A k \in 1..Len(q) : q[k] = q[1]) => v = q[1]
                /\ (Len(q) % 2 = 0 /\ \A k \in 1..Len(q) : q[k] = 255 * ((k - 1) % 2))
                       => v = 127

\* a thumbnail with a block of 0 and 255 in turn (127) beside blocks of 7 and 255
C10_Witness ==
    /\ pc = "reduced"
    /\ cfg.downsample = 2
    /\ \E i, j, k \in 1..Len(thumbs[current_thumb + 1]) :
         /\ thumbs[current_thumb + 1][i] = 127
         /\ thumbs[current_thumb + 1][j] = 7
         /\ thumbs[current_thumb + 1][k] = 255
         /\ BlockSamples(((i - 1) \div 3) % thumb_width, ((i - 1) \div 3) \div thumb_width,
                         (i - 1) % 3) = <<0, 255, 0, 255>>

\* the downsample factor leaves spare columns or spare rows
NonDividing ==
    cfg.capture_width % cfg.downsample # 0 \/ cfg.capture_height % cfg.downsample # 0

\* C11 as stated: when downsample does not divide capture_width or
\* capture_height, the reduction ignores the spare columns and rows: it ends
\* without reading outside the frame or writing outside the thumbnail, and every
\* thumbnail pixel is the average of the samples of its own block.
C11_AsStated ==
    (pc \in {"reduced", "panicked"} /\ NonDividing) =>
        /\ pc = "reduced"
        /\ \A bx \in 0..(thumb_width - 1), by \in 0..(thumb_height - 1), ch \in 0..2 :
              At(thumbs[current_thumb + 1], (by * thumb_width + bx) * 3 + ch)
                  = SumSeq(BlockSamples(bx, by, ch)) \div (cfg.downsample * cfg.downsample)

\* the thumbnail of frame f under settings c, computed pixel by pixel from the
\* samples of each complete block
ExpectedThumb(f, c) ==
    LET ds == c.downsample
        tw == c.capture_width \div ds
        th == c.capture_height \div ds
    IN  [i \in 1..(tw * th * 3) |->
            LET p  == (i - 1) \div 3
                ch == (i - 1) % 3
                bx == p % tw
                by == p \div tw
            IN  SumSeq([k \in 1..(ds * ds) |->
                          f[((by * ds + ((k - 1) \div ds)) * c.capture_width
                             + bx * ds + ((k - 1) % ds)) * 3 + ch + 1]])
                \div (ds * ds)]

\* the state in which the loop is about to run its first iteration
BeforeFirstCycle == pc = "loop" /\ printed = "ready"

\* C12: the loop is entered only through the warm-up sleep followed by a capture
\* into the previous slot and a capture into the current slot, both taken at
\* least camera_warm_up after the start; the second capture leaves the first in
\* place, and the first comparison of the loop is between the thumbnail of that
\* first frame, still in the previous slot, and the thumbnail of the frame the
\* iteration captures.
C12_BothSlotsPopulatedAfterWarmUp ==
    [][/\ (pc' = "init_previous" /\ pc # "init_previous")
            => (pc = "warmup" /\ now' = now + cfg.camera_warm_up)
       /\ (pc' = "init_current" /\ pc # "init_current")
            => /\ pc = "init_previous"
               /\ now - last_frame_time >= cfg.camera_warm_up
               /\ thumbs'[previous_thumb + 1] = ExpectedThumb(frame', cfg)
       /\ (pc' = "loop" /\ pc # "loop")
            => /\ pc = "init_current"
               /\ now - last_frame_time >= cfg.camera_warm_up
               /\ thumbs'[current_thumb + 1] = ExpectedThumb(frame', cfg)
               /\ thumbs'[previous_thumb + 1] = thumbs[previous_thumb + 1]
       /\ (BeforeFirstCycle /\ CycleStep)
            => changed_pixels' =
                 Cardinality({k \in 0..(thumb_len - 1) :
                    MaxChannelDiff(thumbs[previous_thumb + 1],
                                   ExpectedThumb(frame', cfg), k) >= pixel_threshold})]_vars

\* about to compare for the first time, the baseline thumbnail not all zero and
\* unlike the thumbnail of the second frame
C12_Witness ==
    /\ BeforeFirstCycle
    /\ now >= cfg.camera_warm_up + 2
    /\ thumbs[previous_thumb + 1] # Zeros(thumb_len * 3)
    /\ thumbs[previous_thumb + 1] # thumbs[current_thumb + 1]

\* C13: with e the time from the last timestamp to the end of the capture, an
\* iteration sleeps only when e is below the interval and the remainder is more
\* than a millisecond, and then sleeps exactly the remainder, never more than
\* the interval; it does not sleep when e is the interval or more; the new
\* timestamp is taken after the sleep; and with the interval of 200 ms and e of
\* at most a millisecond two successive timestamps are at least 199 ms apart.
C13_PacingSleep ==
    [][(pc = "pace" /\ fed' # fed) =>
         LET e        == fed'[Len(fed')][1]
             slept    == wait_time'
             interval == cfg.frame_capture_interval
         IN  /\ e = (last_frame_time' - slept) - last_frame_time
             /\ slept > 0 => /\ e < interval
                              /\ interval - e > PaceTicksPerMilli
                              /\ slept = interval - e
             /\ slept <= interval
             /\ e >= interval => slept = 0
             /\ last_frame_time' = now'
             /\ e <= PaceTicksPerMilli =>
                   last_frame_time' - last_frame_time
                       >= (PaceIntervalMillis - 1) * PaceTicksPerMilli]_vars

\* a cycle that took no time and slept the whole interval, then a cycle that took
\* longer than the interval and did not sleep
C13_Witness ==
    /\ pc = "pace"
    /\ Len(fed) = 2
    /\ fed[1] = <<0, cfg.frame_capture_interval>>
    /\ fed[2][1] > cfg.frame_capture_interval
    /\ wait_time = 0
    /\ last_frame_time = now

FrameLen == cfg.capture_width * cfg.capture_height * 3

CaptureStates == {"init_previous", "init_current", "loop"}

\* C14: a capture step continues only on a frame of width * height * 3 bytes and
\* then holds the complete thumbnail of that frame; on a shorter frame the step
\* panics (the index check of the frame fails, nothing is read outside it), main
\* is unwound with its thumbnails, and no step follows the panic.
C14_ShortFramePanics ==
    [][/\ (pc \in CaptureStates /\ pc' # "panicked")
            => /\ Len(frame') = FrameLen
               /\ \E reduced \in {ExpectedThumb(frame', cfg)} :
                    thumbs'[1] = reduced \/ thumbs'[2] = reduced
       /\ (pc' = "panicked")
            => /\ pc \in CaptureStates
               /\ printed' \in {"index out of bounds", "Stream is dead",
                                 "Failed to capture frame"}
               /\ thumbs' = <<<<>>, <<>>>>
       /\ pc # "panicked"]_vars

\* panicked on a geometry the factor divides and a thumbnail of two pixels: the
\* frame was short
C14_Witness ==
    /\ pc = "panicked"
    /\ printed = "index out of bounds"
    /\ ~NonDividing
    /\ thumb_len >= 2

CaptureFailures == {"Stream is dead", "Failed to capture frame"}

\* C15: a capture step that does not panic was given a frame; when the stream
\* ends or fails to deliver, in a start-up capture or in the loop, the step
\* panics with the message of the failure, without a comparison and without
\* "start" or "stop", and no step follows: no further frame is requested.
C15_CaptureFailureEndsRun ==
    [][/\ (pc \in CaptureStates /\ pc' # "panicked") => frame' \in GreyFrames(cfg)
       /\ (printed' \in CaptureFailures)
            => /\ pc \in CaptureStates
               /\ pc' = "panicked"
               /\ changed_pixels' = 0
               /\ latest_movement_time' = None
       /\ (pc' = "panicked") => printed' \notin {"start", "stop"}
       /\ pc # "panicked"]_vars

\* the stream ended in the loop, after at least one iteration
C15_Witness ==
    /\ pc = "panicked"
    /\ printed = "Stream is dead"
    /\ now > cfg.camera_warm_up + 2

\* the stream failed to deliver a start-up frame
C15_WitnessStartUp ==
    /\ pc = "panicked"
    /\ printed = "Failed to capture frame"
    /\ now <= cfg.camera_warm_up + 1

\* the number of pixels at which thumbnails a and b differ by pixel_threshold or
\* more in some channel
DifferingPixels(a, b) ==
    Cardinality({k \in 0..(thumb_len - 1) : MaxChannelDiff(a, b, k) >= pixel_threshold})

\* the state right after an iteration that was motion
AfterMotionCycle == CycleDone /\ latest_movement_time = Some(now)

\* C16: after an iteration that is motion the previous slot holds the thumbnail
\* of the frame of that iteration and the current slot is the slot of the old
\* baseline, still holding it; every iteration reduces its frame into the
\* current slot and compares it with the previous slot; so the iteration after a
\* motion iteration compares the thumbnail of its frame with the thumbnail of the
\* frame of the iteration before.
C16_MotionMovesBaseline ==
    [][CycleStep =>
         \E reduced \in {ExpectedThumb(frame', cfg)} :
           /\ thumbs'[current_thumb + 1] = reduced
           /\ thumbs'[previous_thumb + 1] = thumbs[previous_thumb + 1]
           /\ changed_pixels' = DifferingPixels(thumbs[previous_thumb + 1], reduced)
           /\ (changed_pixels' > pixel_count_threshold) =>
                 /\ thumbs'[previous_thumb' + 1] = reduced
                 /\ current_thumb' = previous_thumb
                 /\ thumbs'[current_thumb' + 1] = thumbs[previous_thumb + 1]
           /\ AfterMotionCycle =>
                 changed_pixels' = DifferingPixels(ExpectedThumb(frame, cfg), reduced)]_vars

\* a motion iteration of an Active machine: every pixel of the frame unlike the
\* baseline, which the flip then replaced by the thumbnail of this frame
C16_Witness ==
    /\ AfterMotionCycle
    /\ printed = ""
    /\ pixel_threshold > 0
    /\ thumbs[previous_thumb + 1] = ExpectedThumb(frame, cfg)
    /\ thumbs[current_thumb + 1] # thumbs[previous_thumb + 1]
    /\ now - last_frame_time = 0
    /\ changed_pixels = thumb_len
    /\ thumb_len >= 2

\* the positions of main at which its locals of lines 80-91 are alive
Running == pc \in {"warmup", "init_previous", "init_current", "loop"}

\* C17: while main runs, previous_thumb and current_thumb are 0 and 1 in some
\* order, and both buffers have the length thumb_width * thumb_height * 3 that the
\* settings fixed at start-up.
C17_IndicesAndLengths ==
    Running =>
        /\ previous_thumb \in {0, 1}
        /\ current_thumb \in {0, 1}
        /\ previous_thumb + current_thumb = 1
        /\ thumb_width = cfg.capture_width \div cfg.downsample
        /\ thumb_height = cfg.capture_height \div cfg.downsample
        /\ Len(thumbs[1]) = thumb_width * thumb_height * 3
        /\ Len(thumbs[2]) = thumb_width * thumb_height * 3

\* the indices flipped, on thumbnails of two pixels that frames were reduced into
C17_Witness ==
    /\ CycleDone
    /\ previous_thumb = 1
    /\ current_thumb = 0
    /\ thumb_len >= 2
    /\ thumbs[1] # thumbs[2]

\* the lines printed by the samples fed so far, in order
Events == SelectSeq(FedLines, LAMBDA l : l # "")

Alternates(ev) ==
    \A i \in 1..Len(ev) : ev[i] = IF i % 2 = 1 THEN "start" ELSE "stop"

\* C18: the lines printed so far are "start", "stop", "start", ... in turn, from
\* "start" on, and after every sample the machine is Active exactly when the
\* last line printed is "start".
C18_EventsAlternate ==
    pc = "machine" =>
        /\ Alternates(Events)
        /\ Active <=> (Events # <<>> /\ Events[Len(Events)] = "start")

C18_Witness ==
    /\ pc = "machine"
    /\ Events = <<"start", "stop", "start", "stop">>
    /\ ~Active

\* the latest comparison was not motion
Quiet == changed_pixels <= pixel_count_threshold

\* C19: when from some iteration on no iteration is motion, an Active machine
\* prints "stop" and the machine is Idle from some point on for good; and the
\* machine leaves Active, short of a panic, only in an iteration of the loop that
\* reduced a delivered frame and printed "stop".
C19_QuietLeadsToStop ==
    /\ (Active /\ [](pc = "loop" /\ Quiet)) ~> (printed = "stop")
    /\ (<>[]Quiet) => <>[](~Active)
    /\ [][(Active /\ ~Active' /\ pc' # "panicked")
            => (CycleStep /\ printed' = "stop" /\ frame' \in GreyFrames(cfg))]_vars

\* "stop" printed by an iteration without motion on thumbnails that differ
C19_Witness ==
    /\ pc = "loop"
    /\ printed = "stop"
    /\ ~Active
    /\ Quiet
    /\ pixel_count_threshold >= 1
    /\ changed_pixels >= 1

\* C20: the count of changed pixels is between 0 and thumb_width * thumb_height;
\* and with the image threshold at 100% pixel_count_threshold is that number of
\* pixels, so the machine is never Active, "start" is never printed and the
\* indices stay as they were set at start-up, whatever the frames.
C20_FullThresholdNeverMotion ==
    Running =>
        /\ 0 <= changed_pixels
        /\ changed_pixels <= thumb_width * thumb_height
        /\ (cfg.image_threshold = 100) =>
              /\ pixel_count_threshold = thumb_width * thumb_height
              /\ ~Active
              /\ printed # "start"
              /\ previous_thumb = 0
              /\ current_thumb = 1

\* at 100%, every pixel of a thumbnail of two pixels counted as changed
C20_Witness ==
    /\ CycleDone
    /\ cfg.image_threshold = 100
    /\ pixel_threshold > 0
    /\ thumb_len >= 2
    /\ changed_pixels = thumb_len
    /\ ~Active

====
